---------------------------- MODULE Spec2Model ----------------------------
(***************************************************************************)
(* Schema inference and schema merging of json-benchmarks (src/src/avro.rs). *)
(*                                                                         *)
(* A Schema is a record with a "kind" field (SchemaKind::from).  A Rust    *)
(* HashMap<String, usize> is a set of <<key, index>> pairs with unique     *)
(* keys; indexes and positions are 0-based as in the source, so element i  *)
(* of a Vec is element i + 1 of the sequence that models it.  A            *)
(* Result<Schema, Error> is the schema, or Err; an out-of-range index is   *)
(* Panic.  The iteration order of a HashMap is unspecified, so every       *)
(* operation that iterates one yields the SET of the outcomes the          *)
(* iteration orders can produce.                                           *)
(***************************************************************************)
EXTENDS Integers, Sequences, FiniteSets

VARIABLES schema1, schema2, merged, pc, stream, base

vars == <<schema1, schema2, merged, pc, stream, base>>

---------------------------------------------------------------------------
(* Schema constructors (avro_rs::Schema as used by avro.rs)                *)

Null == [kind |-> "Null"]

Boolean == [kind |-> "Boolean"]

Long == [kind |-> "Long"]

Double == [kind |-> "Double"]

String == [kind |-> "String"]

Array(items) == [kind |-> "Array", items |-> items]

Map(values) == [kind |-> "Map", values |-> values]

Union(variants) == [kind |-> "Union", variants |-> variants]

RecordField(name, schema, default, position) ==
    [name |-> name, schema |-> schema, default |-> default, position |-> position]

RecordSchema(name, fields, lookup) ==
    [kind |-> "Record", name |-> name, fields |-> fields, lookup |-> lookup]

\* Result::Err(Error) of merge_schemas, and a panic of an index expression
Err == [kind |-> "Error"]

Panic == [kind |-> "Panic"]

IsFail(r) == r.kind \in {"Error", "Panic"}

\* lazy_static PRIMITIVES
PRIMITIVES == {"Null", "String", "Boolean", "Double", "Long", "Bytes", "Float", "Int"}

\* lazy_static DUMMY_FIELD
DUMMY_FIELD == RecordField("", Null, "None", 0)

SchemaKind(s) == s.kind

---------------------------------------------------------------------------
(* HashMap<String, usize> as a set of <<key, index>> pairs                  *)

Keys(lookup) == {e[1] : e \in lookup}

ContainsKey(lookup, k) == \E e \in lookup : e[1] = k

Get(lookup, k) == (CHOOSE e \in lookup : e[1] = k)[2]

Remove(lookup, k) == {e \in lookup : e[1] # k}

Insert(lookup, k, v) == Remove(lookup, k) \cup {<<k, v>>}

---------------------------------------------------------------------------
(* UnionSchema of the avro_rs dependency                                   *)

\* UnionSchema::new: rejects a union as a direct variant and two variants
\* of one kind
UnionSchemaNew(schemas) ==
    IF \E i \in 1..Len(schemas) : schemas[i].kind = "Union"
    THEN Err
    ELSE IF \E i, j \in 1..Len(schemas) : i # j /\ schemas[i].kind = schemas[j].kind
         THEN Err
         ELSE Union(schemas)

\* UnionSchema::find_schema_kind_mut: the 1-based index of the variant of
\* kind sk, 0 when there is none
FindSchemaKind(variants, sk) ==
    IF \E i \in 1..Len(variants) : variants[i].kind = sk
    THEN CHOOSE i \in 1..Len(variants) :
            /\ variants[i].kind = sk
            /\ \A j \in 1..(i - 1) : variants[j].kind # sk
    ELSE 0

---------------------------------------------------------------------------
(* merge_schemas                                                           *)

RECURSIVE merge_schemas(_, _)
RECURSIVE MergeLeftFields(_, _, _, _)
RECURSIVE AppendRightFields(_, _, _, _, _)
RECURSIVE MergeKindGroups(_, _, _)

\* Record x Record, first loop (for field1 in fields1.iter_mut()): the
\* outcomes after fields i.. of fields1 are merged with their partner in
\* fields2, found through lookup2 and taken out of it
MergeLeftFields(fields1, fields2, lookup2, i) ==
    IF i > Len(fields1)
    THEN {[kind |-> "Fields", fields1 |-> fields1, fields2 |-> fields2,
           lookup2 |-> lookup2]}
    ELSE LET name == fields1[i].name
             hit  == ContainsKey(lookup2, name)
             idx2 == IF hit THEN Get(lookup2, name) ELSE 0
         IN  IF hit /\ idx2 >= Len(fields2)
             THEN {Panic}
             ELSE LET s2  == IF hit THEN fields2[idx2 + 1].schema ELSE Null
                      f2n == IF hit
                             THEN [fields2 EXCEPT ![idx2 + 1].schema = Null]
                             ELSE fields2
                      l2n == Remove(lookup2, name)
                  IN  UNION { IF IsFail(m)
                              THEN {m}
                              ELSE MergeLeftFields(
                                       [fields1 EXCEPT ![i].schema = m],
                                       f2n, l2n, i + 1)
                              : m \in merge_schemas(fields1[i].schema, s2) }

\* AppendRightFields that puts a field of the right record in front of
\* the fields of the left record, at position 0
AppendRightFieldsInFront(name, fields1, lookup, fields2, lookup2) ==
    IF lookup2 = {}
    THEN {RecordSchema(name, fields1, lookup)}
    ELSE UNION { UNION { IF IsFail(m)
                         THEN {m}
                         ELSE AppendRightFields(
                                  name,
                                  <<[fields2[e[2] + 1] EXCEPT
                                       !.position = 0, !.schema = m]>> \o fields1,
                                  Insert(lookup, e[1], 0), fields2, lookup2 \ {e})
                         : m \in merge_schemas(Null, fields2[e[2] + 1].schema) }
                 : e \in lookup2 }

\* Record x Record, second loop (for (field_name, idx2) in lookup2): the
\* entries left in lookup2 are visited in the HashMap's iteration order
AppendRightFields(name, fields1, lookup, fields2, lookup2) ==
    IF lookup2 = {}
    THEN {RecordSchema(name, fields1, lookup)}
    ELSE UNION { IF e[2] >= Len(fields2)
                 THEN {Panic}
                 ELSE LET field2 == fields2[e[2] + 1]
                          f2n    == [fields2 EXCEPT ![e[2] + 1] = DUMMY_FIELD]
                          l1n    == Insert(lookup, e[1], Len(fields1))
                      IN  UNION { IF IsFail(m)
                                  THEN {m}
                                  ELSE AppendRightFields(
                                           name,
                                           Append(fields1,
                                                  [field2 EXCEPT
                                                     !.position = Len(fields1),
                                                     !.schema = m]),
                                           l1n, f2n, lookup2 \ {e})
                                  : m \in merge_schemas(Null, field2.schema) }
                 : e \in lookup2 }

\* MergeRecords without its second loop: the fields only the right record
\* has are never appended
MergeRecordsLeftOnly(r1, r2) ==
    { IF IsFail(st)
      THEN st
      ELSE RecordSchema(r1.name, st.fields1, r1.lookup)
      : st \in MergeLeftFields(r1.fields, r2.fields, r2.lookup, 1) }

\* (Schema::Record, Schema::Record)
MergeRecords(r1, r2) ==
    UNION { IF IsFail(st)
            THEN {st}
            ELSE AppendRightFields(r1.name, st.fields1, r1.lookup,
                                   st.fields2, st.lookup2)
            : st \in MergeLeftFields(r1.fields, r2.fields, r2.lookup, 1) }

Reverse(s) == [i \in 1..Len(s) |-> s[Len(s) + 1 - i]]

OfKind(variants, k) == SelectSeq(variants, LAMBDA v : v.kind = k)

\* Union x Union, the two while-let loops: schema_kinds maps each kind to
\* the variants of that kind.  The variants of us1 are popped from the end
\* and inserted, a later insert replacing an earlier one; those of us2 are
\* popped from the end and pushed
KindGroups(us1, us2) ==
    [k \in {us1[i].kind : i \in 1..Len(us1)} \cup {us2[i].kind : i \in 1..Len(us2)} |->
        (IF OfKind(us1, k) = << >> THEN << >> ELSE <<Head(OfKind(us1, k))>>)
            \o Reverse(OfKind(us2, k))]

\* Union x Union, for (sk, mut schemas) in schema_kinds: the kinds left are
\* visited in the HashMap's iteration order
MergeKindGroups(schema_kinds, kinds, merged_schemas) ==
    IF kinds = {}
    THEN {UnionSchemaNew(merged_schemas)}
    ELSE UNION {
           LET schemas == schema_kinds[sk]
               n       == Len(schemas)
           IN  IF n = 1 \/ sk \in PRIMITIVES
               THEN MergeKindGroups(schema_kinds, kinds \ {sk},
                                    Append(merged_schemas, schemas[n]))
               ELSE UNION { IF IsFail(m)
                            THEN {m}
                            ELSE MergeKindGroups(schema_kinds, kinds \ {sk},
                                                 Append(merged_schemas, m))
                            : m \in merge_schemas(schemas[n], schemas[n - 1]) }
           : sk \in kinds }

\* MergeUnions without the grouping by kind: the variants of both unions
\* are handed to the union constructor as they are
MergeUnionsConcat(us1, us2) == {UnionSchemaNew(us1 \o us2)}

\* (Schema::Union, Schema::Union)
MergeUnions(us1, us2) ==
    LET schema_kinds == KindGroups(us1, us2)
        kinds        == DOMAIN schema_kinds
    IN  MergeKindGroups(schema_kinds, kinds \ {"Null"},
                        IF "Null" \in kinds THEN <<Null>> ELSE << >>)

\* MergeIntoUnion without the search for a variant of the kind of s2: s2 is
\* always pushed
MergeIntoUnionPush(us1, s2) == {Union(Append(us1, s2))}

\* (Schema::Union(us1), s2) and (s2, Schema::Union(us1)): the variant of
\* the kind of s2 is replaced by its merge with s2, or s2 is pushed
MergeIntoUnion(us1, s2) ==
    LET i == FindSchemaKind(us1, SchemaKind(s2))
    IN  IF i # 0
        THEN { IF IsFail(m) THEN m ELSE Union([us1 EXCEPT ![i] = m])
               : m \in merge_schemas(us1[i], s2) }
        ELSE {Union(Append(us1, s2))}

\* MergeMixed that keeps the left schema and builds no union
MergeMixedKeepLeft(s1, s2) == {s1}

\* the last arm, (s1, s2) of different kinds
MergeMixed(s1, s2) ==
    {UnionSchemaNew(IF s1 = Null THEN <<s1, s2>> ELSE <<s2, s1>>)}

\* merge_schemas without the arm for two schemas of one kind
merge_schemas_NoSameKindArm(s1, s2) ==
    IF s1.kind = "Record" /\ s2.kind = "Record"
    THEN MergeRecords(s1, s2)
    ELSE IF s1.kind = "Union" /\ s2.kind = "Union"
    THEN MergeUnions(s1.variants, s2.variants)
    ELSE IF s1.kind = "Union"
    THEN MergeIntoUnion(s1.variants, s2)
    ELSE IF s2.kind = "Union"
    THEN MergeIntoUnion(s2.variants, s1)
    ELSE IF s1.kind = "Array" /\ s2.kind = "Array"
    THEN {IF IsFail(m) THEN m ELSE Array(m) : m \in merge_schemas(s1.items, s2.items)}
    ELSE IF s1.kind = "Map" /\ s2.kind = "Map"
    THEN {IF IsFail(m) THEN m ELSE Map(m) : m \in merge_schemas(s1.values, s2.values)}
    ELSE MergeMixed(s1, s2)

merge_schemas(s1, s2) ==
    IF s1.kind = "Record" /\ s2.kind = "Record"
    THEN MergeRecords(s1, s2)
    ELSE IF s1.kind = "Union" /\ s2.kind = "Union"
    THEN MergeUnions(s1.variants, s2.variants)
    ELSE IF s1.kind = "Union"
    THEN MergeIntoUnion(s1.variants, s2)
    ELSE IF s2.kind = "Union"
    THEN MergeIntoUnion(s2.variants, s1)
    ELSE IF s1.kind = "Array" /\ s2.kind = "Array"
    THEN {IF IsFail(m) THEN m ELSE Array(m) : m \in merge_schemas(s1.items, s2.items)}
    ELSE IF s1.kind = "Map" /\ s2.kind = "Map"
    THEN {IF IsFail(m) THEN m ELSE Map(m) : m \in merge_schemas(s1.values, s2.values)}
    ELSE IF SchemaKind(s1) = SchemaKind(s2)
    THEN {s1}
    ELSE MergeMixed(s1, s2)

---------------------------------------------------------------------------
(* JSON values.  A number carries the parts json::number::Number::as_parts *)
(* returns: the sign, the u64 mantissa as its four 16-bit limbs, most      *)
(* significant first, and the decimal exponent.  A string carries whether  *)
(* the json crate stores it as JsonValue::Short; an object is its sequence *)
(* of <<key, value>> entries.                                              *)

JNull == [t |-> "Null"]

JBool == [t |-> "Boolean"]

JNumber(positive, mantissa, exponent) ==
    [t |-> "Number", positive |-> positive, mantissa |-> mantissa,
     exponent |-> exponent]

\* The u64 of a value below 2^16
U64(n) == <<0, 0, 0, n>>

\* The number is in the range of an i64: below 2^63, or -2^63
FitsI64(number) ==
    \/ number.mantissa[1] < 32768
    \/ ~number.positive /\ number.mantissa = <<32768, 0, 0, 0>>

JString(short) == [t |-> "String", short |-> short]

JArray(elems) == [t |-> "Array", elems |-> elems]

JObject(entries) == [t |-> "Object", entries |-> entries]

---------------------------------------------------------------------------
(* infer_schema and infer_schema_serde                                     *)

RECURSIVE infer_schema(_, _)
RECURSIVE InferFields(_, _, _)
RECURSIVE FoldMerge(_, _, _, _)
RECURSIVE infer_schema_serde(_, _)
RECURSIVE InferFieldsSerde(_, _, _)
RECURSIVE FoldMergeSerde(_, _, _, _)

\* infer_schema, Array arm:
\* rest.iter().fold(initial_schema, |base, element| ...) over vector[i..]
FoldMerge(initial_schema, vector, i, name) ==
    IF IsFail(initial_schema) \/ i > Len(vector)
    THEN {initial_schema}
    ELSE UNION { IF IsFail(schema)
                 THEN {schema}
                 ELSE UNION { FoldMerge(m, vector, i + 1, name)
                              : m \in merge_schemas(initial_schema, schema) }
                 : schema \in infer_schema(vector[i], name) }

\* infer_schema, Object arm: the loop over json_value.entries()
InferFields(entries, i, fields) ==
    IF i > Len(entries)
    THEN {[kind |-> "Fields", fields |-> fields]}
    ELSE UNION { IF IsFail(field_schema)
                 THEN {field_schema}
                 ELSE InferFields(entries, i + 1,
                          Append(fields,
                                 RecordField(entries[i][1], field_schema,
                                             "None", Len(fields))))
                 : field_schema \in infer_schema(entries[i][2], entries[i][1]) }

\* the lookup infer_schema collects: fields.iter().enumerate()
LookupOf(fields) == {<<fields[i].name, i - 1>> : i \in 1..Len(fields)}

infer_schema(json_value, name) ==
    CASE json_value.t = "Boolean" -> {Boolean}
      [] json_value.t = "String" ->
            \* a JsonValue::Short is matched by its own arm, not by String
            IF json_value.short THEN {Long} ELSE {String}
      [] json_value.t = "Number" ->
            IF json_value.exponent = 0 THEN {Long} ELSE {Double}
      [] json_value.t = "Array" ->
            LET vector == json_value.elems
                items  == IF vector # << >>
                          THEN UNION { FoldMerge(initial_schema, vector, 2, name)
                                       : initial_schema \in infer_schema(vector[1], name) }
                          ELSE {Null}
            IN  {IF IsFail(s) THEN s ELSE Array(s) : s \in items}
      [] json_value.t = "Object" ->
            { IF IsFail(r)
              THEN r
              ELSE RecordSchema(name, r.fields, LookupOf(r.fields))
              : r \in InferFields(json_value.entries, 1, << >>) }
      [] json_value.t = "Null" -> {Null}
      [] OTHER -> {Null}

\* infer_schema_serde, Array arm:
\* vector.into_iter().fold(initial_schema, |base, element| ...)
FoldMergeSerde(initial_schema, vector, i, name) ==
    IF IsFail(initial_schema) \/ i > Len(vector)
    THEN {initial_schema}
    ELSE UNION { IF IsFail(schema)
                 THEN {schema}
                 ELSE UNION { FoldMergeSerde(m, vector, i + 1, name)
                              : m \in merge_schemas(initial_schema, schema) }
                 : schema \in infer_schema_serde(vector[i], name) }

\* infer_schema_serde, Object arm: for (field_name, field_value) in obj
InferFieldsSerde(entries, i, fields) ==
    IF i > Len(entries)
    THEN {[kind |-> "Fields", fields |-> fields]}
    ELSE UNION { IF IsFail(field_schema)
                 THEN {field_schema}
                 ELSE InferFieldsSerde(entries, i + 1,
                          Append(fields,
                                 RecordField(entries[i][1], field_schema,
                                             "None", Len(fields))))
                 : field_schema \in infer_schema_serde(entries[i][2], entries[i][1]) }

\* The keys of the model, in the order of their strings
SortedNames == <<"a", "b">>

KeyRank(k) == CHOOSE i \in 1..Len(SortedNames) : SortedNames[i] = k

\* The entries as a BTreeMap iterates them: by ascending key
SortedEntries(entries) ==
    LET n    == Len(entries)
        at(r) == CHOOSE i \in 1..n :
                    Cardinality({j \in 1..n :
                        KeyRank(entries[j][1]) < KeyRank(entries[i][1])}) = r - 1
    IN  [r \in 1..n |-> entries[at(r)]]

\* serde_json::Map iterates by key, or in insertion order when the crate is
\* built with preserve_order: both builds are outcomes
MapIter(entries) == {entries, SortedEntries(entries)}

infer_schema_serde(json_value, name) ==
    CASE json_value.t = "Boolean" -> {Boolean}
      [] json_value.t = "String" -> {String}
      [] json_value.t = "Number" ->
            \* number.is_u64() || number.is_i64(): an integer literal that
            \* serde_json holds as a u64 or an i64; it parses a negative
            \* integer below i64::MIN to an f64
            IF json_value.exponent = 0 /\ (json_value.positive \/ FitsI64(json_value))
            THEN {Long}
            ELSE {Double}
      [] json_value.t = "Array" ->
            LET vector == json_value.elems
                n      == Len(vector)
                items  == IF vector # << >>
                          THEN UNION { FoldMergeSerde(initial_schema,
                                                      SubSeq(vector, 1, n - 1), 1, name)
                                       : initial_schema \in infer_schema_serde(vector[n], name) }
                          ELSE {Null}
            IN  {IF IsFail(s) THEN s ELSE Array(s) : s \in items}
      [] json_value.t = "Object" ->
            UNION { { IF IsFail(r)
                      THEN r
                      ELSE RecordSchema(name, r.fields, {})
                      : r \in InferFieldsSerde(obj, 1, << >>) }
                    : obj \in MapIter(json_value.entries) }
      [] json_value.t = "Null" -> {Null}

---------------------------------------------------------------------------
(* The bounded inputs                                                      *)

\* The longest stream the fold consumes
MaxStream == 3

FieldNames == {"a", "b"}

\* Sequences of distinct elements of S, of at most n elements
DistinctSeqs(S, n) ==
    UNION { {s \in [1..k -> S] : \A i, j \in 1..k : i # j => s[i] # s[j]}
            : k \in 0..n }

RecordOf(name, names, schemas) ==
    LET fields == [i \in 1..Len(names) |->
                      RecordField(names[i], schemas[i], "None", i - 1)]
    IN  RecordSchema(name, fields, LookupOf(fields))

\* The records named name whose fields are in S, with a consistent lookup
RecordsOver(name, S) ==
    UNION { {RecordOf(name, names, schemas) : schemas \in [1..Len(names) -> S]}
            : names \in DistinctSeqs(FieldNames, Cardinality(FieldNames)) }

\* The unions of 2 or more variants of S, no two of one kind
UnionsOver(S) ==
    {Union(vs) : vs \in {s \in DistinctSeqs(S, Cardinality({x.kind : x \in S})) :
                            /\ Len(s) >= 2
                            /\ \A i, j \in 1..Len(s) : i # j => s[i].kind # s[j].kind}}

LeafSchemas == {Null, Long, String}

\* The schemas of depth 1, as a caller or Schema::parse_str builds them
ShallowSchemas ==
    LeafSchemas
        \cup {Array(s) : s \in LeafSchemas}
        \cup {Map(s) : s \in LeafSchemas}
        \cup RecordsOver("r", LeafSchemas)
        \cup UnionsOver(LeafSchemas)

\* The records infer_schema_serde builds: their lookup is empty
SerdeRecords == {[r EXCEPT !.lookup = {}] : r \in RecordsOver("r", {Long})}

InnerSchemas ==
    {RecordOf("r", <<"a">>, <<Long>>), RecordOf("r", <<"b">>, <<String>>),
     Array(Long), Array(String), Union(<<Null, Long>>), Union(<<String, Long>>)}

\* Schemas of depth 2: arrays, one-field records and unions of InnerSchemas
NestedSchemas ==
    {Array(s) : s \in InnerSchemas}
        \cup {RecordOf("r", <<"a">>, <<s>>) : s \in InnerSchemas}
        \cup UnionsOver({Null} \cup {s \in InnerSchemas : s.kind # "Union"})

\* The schemas handed to merge_schemas directly
CallSchemas == ShallowSchemas \cup SerdeRecords \cup NestedSchemas

ScalarValues == {JNull, JNumber(TRUE, U64(1), 0), JString(FALSE)}

\* The entries an object value is made of: key a with two types, key b
ObjectEntries ==
    {<<"a", JNumber(TRUE, U64(1), 0)>>, <<"a", JString(FALSE)>>, <<"b", JNumber(TRUE, U64(1), 0)>>}

\* The objects: sequences of entries with distinct keys
ObjectValues ==
    {JObject(es) : es \in {s \in DistinctSeqs(ObjectEntries, Cardinality(FieldNames)) :
                              \A i, j \in 1..Len(s) : i # j => s[i][1] # s[j][1]}}

ElemValues == {JNumber(TRUE, U64(1), 0), JObject(<<<<"a", JNumber(TRUE, U64(1), 0)>>>>)}

ArrayValues == {JArray(es) : es \in DistinctSeqs(ElemValues, Cardinality(ElemValues))}

\* The values of the stream the fold consumes
StreamValues ==
    {JNull, JArray(<< >>), JArray(<<JNumber(TRUE, U64(1), 0)>>)} \cup ObjectValues

\* The values inference alone is applied to
Values == ScalarValues \cup ObjectValues \cup ArrayValues

\* Numbers around the ends of the i64 range, and with an exponent:
\* 1, 1.5, 100 written 1e2, 2^63 - 1, 2^63, 2^64 - 1, -2^63, -(2^63 + 1)
NumberValues ==
    {JNumber(TRUE, U64(1), 0), JNumber(TRUE, U64(15), -1), JNumber(TRUE, U64(1), 2),
     JNumber(TRUE, <<32767, 65535, 65535, 65535>>, 0),
     JNumber(TRUE, <<32768, 0, 0, 0>>, 0),
     JNumber(TRUE, <<65535, 65535, 65535, 65535>>, 0),
     JNumber(FALSE, <<32768, 0, 0, 0>>, 0),
     JNumber(FALSE, <<32768, 0, 0, 1>>, 0)}

\* Arrays of heterogeneous objects and of mixed kinds
MixedArrays ==
    {JArray(<<JObject(<< >>),
              JObject(<<<<"a", JNumber(TRUE, U64(1), 0)>>, <<"b", JString(FALSE)>>>>)>>),
     JArray(<<JObject(<<<<"a", JNumber(TRUE, U64(1), 0)>>>>),
              JObject(<<<<"b", JNumber(TRUE, U64(1), 0)>>>>),
              JObject(<<<<"a", JString(FALSE)>>>>)>>),
     JArray(<<JNumber(TRUE, U64(1), 0), JString(FALSE)>>),
     JArray(<<JNumber(TRUE, U64(1), 0), JString(FALSE), JNull>>),
     JArray(<<JNumber(TRUE, U64(1), 0), JString(FALSE), JBool>>),
     JArray(<<JArray(<<JNumber(TRUE, U64(1), 0), JString(FALSE)>>),
              JArray(<<JString(FALSE), JBool>>)>>)}

\* The values infer_schema and infer_schema_serde are called on: those
\* above, a boolean, a string the parser keeps as JsonValue::Short, the
\* object {"a": 1, "b": "x"} and an object in an object
InferValues ==
    Values \cup NumberValues \cup MixedArrays
        \cup {JBool, JString(TRUE),
              JObject(<<<<"a", JNumber(TRUE, U64(1), 0)>>, <<"b", JString(TRUE)>>>>),
              JObject(<<<<"b", JString(FALSE)>>, <<"a", JBool>>>>),
              JObject(<<<<"a", JObject(<<<<"b", JNull>>>>)>>>>)}

---------------------------------------------------------------------------
(* The state machine: one direct call of merge_schemas on a pair of         *)
(* schemas, one call of infer_schema or of infer_schema_serde, or the       *)
(* stream fold of test_infer_schema_performance.                            *)

NoSchema == [kind |-> "None"]

Init ==
    /\ pc = "idle"
    /\ schema1 = NoSchema
    /\ schema2 = NoSchema
    /\ merged = NoSchema
    /\ stream = << >>
    /\ base = NoSchema

\* merge_schemas(a, b), called on two schemas
Call ==
    /\ pc = "idle"
    /\ \E a, b \in CallSchemas :
          /\ schema1' = a
          /\ schema2' = b
          /\ merged' \in merge_schemas(a, b)
    /\ pc' = "called"
    /\ UNCHANGED <<stream, base>>

\* infer_schema_serde(v, "inferred_schema")
InferSerde ==
    /\ pc = "idle"
    /\ \E v \in InferValues :
          /\ base' \in infer_schema_serde(v, "inferred_schema")
          /\ stream' = <<v>>
    /\ pc' = "serde"
    /\ UNCHANGED <<schema1, schema2, merged>>

\* infer_schema(v, "inferred_schema")
Infer ==
    /\ pc = "idle"
    /\ \E v \in InferValues :
          /\ base' \in infer_schema(v, "inferred_schema")
          /\ stream' = <<v>>
    /\ pc' = "infer"
    /\ UNCHANGED <<schema1, schema2, merged>>

\* let first = schemas.next().unwrap(): the schema of the first value of
\* the stream, or the panic of unwrap on the None of a stream with no value
First ==
    /\ pc = "idle"
    /\ \/ /\ \E v \in StreamValues :
                /\ base' \in infer_schema(v, "inferred_schema")
                /\ stream' = <<v>>
          /\ pc' = "fold"
       \/ /\ base' = Panic
          /\ stream' = << >>
          /\ pc' = "aborted"
    /\ UNCHANGED <<schema1, schema2, merged>>

\* one step of
\* schemas.fold(first, |base, next| merge_schemas(base.unwrap(), next.unwrap()))
Fold ==
    /\ pc = "fold"
    /\ Len(stream) < MaxStream
    /\ ~IsFail(base)
    /\ \E v \in StreamValues :
          /\ \E next \in infer_schema(v, "inferred_schema") :
                /\ ~IsFail(next)
                /\ schema1' = base
                /\ schema2' = next
                /\ merged' \in merge_schemas(base, next)
          /\ stream' = Append(stream, v)
    /\ base' = merged'
    /\ pc' = "fold"

Next == Call \/ Infer \/ InferSerde \/ First \/ Fold

Spec == Init /\ [][Next]_vars

---------------------------------------------------------------------------
(* Predicates on schemas                                                   *)

RECURSIVE Accepts(_, _)
RECURSIVE WellFormed(_)
RECURSIVE UnionsWellFormed(_)
RECURSIVE NullFirst(_)
RECURSIVE LookupConsistent(_)
RECURSIVE Canon(_)
RECURSIVE SameUpToOrder(_, _)

Schemas(seq) == {seq[i] : i \in 1..Len(seq)}

Children(s) ==
    CASE s.kind = "Array" -> {s.items}
      [] s.kind = "Map" -> {s.values}
      [] s.kind = "Union" -> Schemas(s.variants)
      [] s.kind = "Record" -> {s.fields[i].schema : i \in 1..Len(s.fields)}
      [] OTHER -> {}

FieldNamesOf(r) == {r.fields[i].name : i \in 1..Len(r.fields)}

FieldNamed(r, k) == r.fields[CHOOSE i \in 1..Len(r.fields) : r.fields[i].name = k]

VariantKinds(u) == {u.variants[i].kind : i \in 1..Len(u.variants)}

HasNull(s) == s.kind = "Union" /\ "Null" \in VariantKinds(s)

\* Structural acceptance of a JSON value by a schema.  A record accepts an
\* object whose keys are fields of it, when every field accepts the value
\* of its key, or null if the object has no such key.
Accepts(s, v) ==
    CASE s.kind = "Null" -> v.t = "Null"
      [] s.kind = "Boolean" -> v.t = "Boolean"
      [] s.kind = "Long" -> v.t = "Number" /\ v.exponent = 0
      [] s.kind = "Double" -> v.t = "Number" /\ v.exponent # 0
      [] s.kind = "String" -> v.t = "String"
      [] s.kind = "Array" ->
            v.t = "Array" /\ \A i \in 1..Len(v.elems) : Accepts(s.items, v.elems[i])
      [] s.kind = "Map" ->
            v.t = "Object" /\ \A i \in 1..Len(v.entries) : Accepts(s.values, v.entries[i][2])
      [] s.kind = "Record" ->
            /\ v.t = "Object"
            /\ \A i \in 1..Len(v.entries) : v.entries[i][1] \in FieldNamesOf(s)
            /\ \A i \in 1..Len(s.fields) :
                  IF \E j \in 1..Len(v.entries) : v.entries[j][1] = s.fields[i].name
                  THEN \A j \in 1..Len(v.entries) :
                          v.entries[j][1] = s.fields[i].name
                              => Accepts(s.fields[i].schema, v.entries[j][2])
                  ELSE Accepts(s.fields[i].schema, JNull)
      [] s.kind = "Union" ->
            \E i \in 1..Len(s.variants) : Accepts(s.variants[i], v)
      [] OTHER -> FALSE

\* Every union of s, at any depth, has at least 2 variants, no two of one
\* kind and none a union
UnionsWellFormed(s) ==
    /\ s.kind = "Union" =>
          /\ Len(s.variants) >= 2
          /\ \A i, j \in 1..Len(s.variants) :
                i # j => s.variants[i].kind # s.variants[j].kind
          /\ \A i \in 1..Len(s.variants) : s.variants[i].kind # "Union"
    /\ \A c \in Children(s) : UnionsWellFormed(c)

\* Every record of s, at any depth, has unique field names, positions equal
\* to the indexes and a lookup from exactly the names to the positions
LookupConsistent(s) ==
    /\ s.kind = "Record" =>
          /\ \A i, j \in 1..Len(s.fields) :
                i # j => s.fields[i].name # s.fields[j].name
          /\ \A i \in 1..Len(s.fields) : s.fields[i].position = i - 1
          /\ Keys(s.lookup) = FieldNamesOf(s)
          /\ \A i \in 1..Len(s.fields) :
                \A e \in s.lookup : e[1] = s.fields[i].name => e[2] = s.fields[i].position
    /\ \A c \in Children(s) : LookupConsistent(c)

\* Every union of s, at any depth, that has Null has it at index 0
NullFirst(s) ==
    /\ HasNull(s) => s.variants[1].kind = "Null"
    /\ \A c \in Children(s) : NullFirst(c)

\* The data-model invariants merge_schemas is given: well-formed unions and
\* consistent record lookups
WellFormed(s) == UnionsWellFormed(s) /\ LookupConsistent(s)

\* The schema with all order forgotten: the fields of a record as a set of
\* <<name, schema>>, the variants of a union as a set
Canon(s) ==
    CASE s.kind = "Array" -> [kind |-> "Array", of |-> {Canon(s.items)}]
      [] s.kind = "Map" -> [kind |-> "Map", of |-> {Canon(s.values)}]
      [] s.kind = "Union" ->
            [kind |-> "Union", of |-> {Canon(s.variants[i]) : i \in 1..Len(s.variants)}]
      [] s.kind = "Record" ->
            [kind |-> "Record",
             of |-> {<<s.fields[i].name, Canon(s.fields[i].schema)>>
                       : i \in 1..Len(s.fields)}]
      [] OTHER -> [kind |-> s.kind, of |-> {}]

\* Equal up to the positions of the fields and the order of the variants
\* of a union other than Null: same record name, the same fields in the
\* same order with the same defaults, the same set of variants, and Null
\* first in both unions or in neither
SameUpToOrder(s, t) ==
    /\ s.kind = t.kind
    /\ CASE s.kind = "Array" -> SameUpToOrder(s.items, t.items)
         [] s.kind = "Map" -> SameUpToOrder(s.values, t.values)
         [] s.kind = "Union" ->
               /\ Len(s.variants) = Len(t.variants)
               /\ (s.variants[1].kind = "Null") = (t.variants[1].kind = "Null")
               /\ \A i \in 1..Len(s.variants) :
                     \E j \in 1..Len(t.variants) :
                        SameUpToOrder(s.variants[i], t.variants[j])
               /\ \A j \in 1..Len(t.variants) :
                     \E i \in 1..Len(s.variants) :
                        SameUpToOrder(s.variants[i], t.variants[j])
         [] s.kind = "Record" ->
               /\ s.name = t.name
               /\ Len(s.fields) = Len(t.fields)
               /\ Keys(s.lookup) = Keys(t.lookup)
               /\ \A i \in 1..Len(s.fields) :
                     /\ s.fields[i].name = t.fields[i].name
                     /\ s.fields[i].default = t.fields[i].default
                     /\ SameUpToOrder(s.fields[i].schema, t.fields[i].schema)
         [] OTHER -> TRUE

\* nullable(s) of the specification, section 4.2.1
nullable(s) ==
    IF s.kind = "Null" THEN Null
    ELSE IF s.kind = "Union"
         THEN IF HasNull(s) THEN s ELSE Union(<<Null>> \o s.variants)
         ELSE Union(<<Null, s>>)

\* The values acceptance is tried on
AcceptValues ==
    Values
        \cup {JObject(es) :
                es \in {s \in DistinctSeqs(FieldNames \X ScalarValues, Cardinality(FieldNames)) :
                          \A i, j \in 1..Len(s) : i # j => s[i][1] # s[j][1]}}
        \cup {JArray(es) : es \in DistinctSeqs(ScalarValues, 2)}

\* The sequences with the elements of seq in any order
PermutationsOf(seq) ==
    {[i \in 1..Len(seq) |-> seq[f[i]]] :
        f \in {g \in [1..Len(seq) -> 1..Len(seq)] :
                  \A i, j \in 1..Len(seq) : i # j => g[i] # g[j]}}

\* The outcomes of the stream fold over the values of seq, in their order
FoldOutcomes(seq) ==
    UNION { FoldMerge(first, seq, 2, "inferred_schema")
            : first \in infer_schema(seq[1], "inferred_schema") }

\* A merge_schemas call has returned: merged holds its outcome
Returned == merged # NoSchema

NamesOf(fields) == [i \in 1..Len(fields) |-> fields[i].name]

---------------------------------------------------------------------------
(* The claims                                                              *)

\* C1: when both inputs are well-formed, the schema merge_schemas returns
\* accepts every value either input accepts, has every field name of two
\* merged records and every variant kind of a merged union.
C1_MergedAcceptsBoth ==
    (Returned /\ ~IsFail(merged) /\ WellFormed(schema1) /\ WellFormed(schema2)) =>
        /\ \A v \in AcceptValues :
              (Accepts(schema1, v) \/ Accepts(schema2, v)) => Accepts(merged, v)
        /\ (schema1.kind = "Record" /\ schema2.kind = "Record") =>
              /\ merged.kind = "Record"
              /\ FieldNamesOf(schema1) \cup FieldNamesOf(schema2) \subseteq FieldNamesOf(merged)
        /\ \A s \in {schema1, schema2} :
              s.kind = "Union" =>
                 /\ merged.kind = "Union"
                 /\ VariantKinds(s) \subseteq VariantKinds(merged)

\* C1 witness: two records were merged, the right one brought a field the
\* left one lacks, and a value only the right one accepts is accepted.
C1_Witness ==
    /\ pc = "called"
    /\ schema1.kind = "Record" /\ schema2.kind = "Record"
    /\ WellFormed(schema1) /\ WellFormed(schema2)
    /\ ~IsFail(merged)
    /\ FieldNamesOf(schema2) \ FieldNamesOf(schema1) # {}
    /\ \E v \in AcceptValues :
          ~Accepts(schema1, v) /\ Accepts(schema2, v) /\ Accepts(merged, v)

\* C2: every union, at any depth, of a schema merge_schemas returns and of
\* every accumulator of the fold has Null at index 0 when it has Null.
C2_NullFirstEverywhere ==
    /\ (pc = "fold" /\ ~IsFail(base)) => NullFirst(base)
    /\ (pc = "called" /\ ~IsFail(merged) /\ NullFirst(schema1) /\ NullFirst(schema2))
          => NullFirst(merged)

\* C3: merge_schemas(s, Null) and merge_schemas(Null, s) equal nullable(s).
C3_MergeWithNullIsNullable ==
    /\ (pc = "called" /\ schema2 = Null) => merged = nullable(schema1)
    /\ (pc = "called" /\ schema1 = Null) => merged = nullable(schema2)

\* C4: a field name present in exactly one of two merged records is a
\* field of the merged record, its schema has Null and its default is Null.
C4_AbsentFieldNullableWithDefault ==
    (pc = "called" /\ schema1.kind = "Record" /\ schema2.kind = "Record"
        /\ WellFormed(schema1) /\ WellFormed(schema2) /\ ~IsFail(merged)) =>
        \A k \in (FieldNamesOf(schema1) \ FieldNamesOf(schema2))
                    \cup (FieldNamesOf(schema2) \ FieldNamesOf(schema1)) :
            /\ k \in FieldNamesOf(merged)
            /\ FieldNamed(merged, k).schema = nullable(FieldNamed(merged, k).schema)
            /\ FieldNamed(merged, k).default = "Null"

\* C5: when the unions of both inputs are well-formed, every union of the
\* merged schema, and of every accumulator of the fold, has at least 2
\* variants, no two variants of one kind and no union as a variant.
C5_UnionsStayWellFormed ==
    /\ (Returned /\ ~IsFail(merged)
           /\ UnionsWellFormed(schema1) /\ UnionsWellFormed(schema2))
          => UnionsWellFormed(merged)
    /\ (pc = "fold" /\ ~IsFail(base)) => UnionsWellFormed(base)

\* C5 witness: a union was merged with a schema of a kind it already has,
\* or with a union.
C5_Witness ==
    /\ Returned /\ ~IsFail(merged)
    /\ schema1.kind = "Union" /\ UnionsWellFormed(schema1) /\ UnionsWellFormed(schema2)
    /\ schema2.kind \in VariantKinds(schema1) \cup {"Union"}
    /\ schema2.kind # "Null"
    /\ Len(merged.variants) >= 3

\* C6: every record inference produces, by infer_schema and by
\* infer_schema_serde, and every record merged from consistent records, has
\* unique names, positions equal to the indexes and a lookup from exactly
\* the field names to the positions.
C6_LookupConsistentEverywhere ==
    /\ (pc \in {"fold", "serde"} /\ ~IsFail(base)) => LookupConsistent(base)
    /\ (pc = "called" /\ ~IsFail(merged)
           /\ LookupConsistent(schema1) /\ LookupConsistent(schema2))
          => LookupConsistent(merged)

C8_OrderIndependent ==
    /\ (pc = "fold" /\ ~IsFail(base)) =>
          LET canon == Canon(base)
          IN  \A p \in PermutationsOf(stream) :
                 \A r \in FoldOutcomes(p) : ~IsFail(r) /\ Canon(r) = canon
    /\ (pc = "called" /\ ~IsFail(merged) /\ WellFormed(schema1) /\ WellFormed(schema2)) =>
          \A r \in merge_schemas(schema2, schema1) :
             ~IsFail(r) /\ Canon(r) = Canon(merged)

\* C8 witness: a fold of three different values, two of them objects with
\* different keys, has ended.
C8_Witness ==
    /\ pc = "fold" /\ ~IsFail(base)
    /\ Len(stream) = 3
    /\ stream[1] # stream[2] /\ stream[2] # stream[3] /\ stream[1] # stream[3]
    /\ base.kind = "Record"
    /\ Cardinality(FieldNamesOf(base)) = 2
    /\ \E i \in 1..Len(base.fields) : Len(base.fields[i].schema.variants) = 3

\* C9: two merged records give a record with the name of the left one, the
\* fields of the left one in their order, then the fields only the right
\* one has, in the order of the right one.
C9_LeftThenRightOrder ==
    (pc = "called" /\ schema1.kind = "Record" /\ schema2.kind = "Record"
        /\ WellFormed(schema1) /\ WellFormed(schema2) /\ ~IsFail(merged)) =>
        /\ merged.name = schema1.name
        /\ NamesOf(merged.fields) =
              NamesOf(schema1.fields)
                 \o SelectSeq(NamesOf(schema2.fields),
                              LAMBDA k : k \notin FieldNamesOf(schema1))

\* C10: merge_schemas returns Ok for every two schemas with well-formed
\* unions and consistent lookups: no Err of the union constructor and no
\* index out of range, at any depth.
C10_MergeTotal ==
    (Returned /\ WellFormed(schema1) /\ WellFormed(schema2)) => ~IsFail(merged)

\* C10 witness: two unions that share the kinds Record and Array were
\* merged, the union constructor was called and returned a union.
C10_Witness ==
    /\ pc = "called"
    /\ schema1.kind = "Union" /\ schema2.kind = "Union"
    /\ WellFormed(schema1) /\ WellFormed(schema2)
    /\ {"Record", "Array"} \subseteq VariantKinds(schema1) \cap VariantKinds(schema2)
    /\ merged.kind = "Union"

\* C11: infer_schema returns Ok for every value, and every run on the same
\* value and name returns the same schema, with the same order of the
\* fields of every record and of the variants of every union.
C11_InferenceTotalDeterministic ==
    pc = "infer" =>
        /\ ~IsFail(base)
        /\ \A r \in infer_schema(stream[1], "inferred_schema") : r = base

RECURSIVE MapsTo(_, _)

\* The schema s is the one the value variant of v is mapped to: Null to
\* Null, a boolean to Boolean, a string to String, an object to a record of
\* its keys, in their order, each with the schema its value is mapped to
MapsTo(v, s) ==
    CASE v.t = "Null" -> s = Null
      [] v.t = "Boolean" -> s = Boolean
      [] v.t = "String" -> s = String
      [] v.t = "Object" ->
            /\ s.kind = "Record"
            /\ NamesOf(s.fields) = [i \in 1..Len(v.entries) |-> v.entries[i][1]]
            /\ \A i \in 1..Len(v.entries) : MapsTo(v.entries[i][2], s.fields[i].schema)
      [] OTHER -> TRUE

\* C12: infer_schema maps null to Null, a boolean to Boolean, every string,
\* short or not, to String, and an object to the record of its keys in
\* input order, each field with the schema inferred from its value.
C12_ValueVariantMapping ==
    pc = "infer" => MapsTo(stream[1], base)

\* C13: infer_schema and infer_schema_serde map a number to Long if its
\* decimal exponent is zero and it fits a signed 64-bit integer, and to
\* Double otherwise.
C13_NumericPolicy ==
    (pc \in {"infer", "serde"} /\ stream[1].t = "Number") =>
        base = IF stream[1].exponent = 0 /\ FitsI64(stream[1]) THEN Long ELSE Double

\* The outcomes of the left fold of merge_schemas over the schemas
\* infer_schema_serde gives the elements of vector, in their order
LeftFoldSerde(vector, name) ==
    UNION { FoldMergeSerde(first, vector, 2, name)
            : first \in infer_schema_serde(vector[1], name) }

\* C14: infer_schema and infer_schema_serde give an empty array Array(Null)
\* and a non-empty array Array(e), e the left fold of merge_schemas over
\* the schemas of all the elements in their order, from the first element.
C14_ArrayIsLeftFold ==
    /\ (pc = "infer" /\ stream[1].t = "Array") =>
          IF stream[1].elems = << >>
          THEN base = Array(Null)
          ELSE /\ base.kind = "Array"
               /\ base.items \in FoldOutcomes(stream[1].elems)
    /\ (pc = "serde" /\ stream[1].t = "Array") =>
          IF stream[1].elems = << >>
          THEN base = Array(Null)
          ELSE /\ base.kind = "Array"
               /\ base.items \in LeftFoldSerde(stream[1].elems, "inferred_schema")

\* C15: merging two schemas of different kinds, neither Null nor a union,
\* yields the union of the left one then the right one; a field two merged
\* records both have, Long in the left and String in the right, gets
\* Union[Long, String], without Null.
C15_MixedKindsInInputOrder ==
    /\ (pc = "called" /\ schema1.kind # schema2.kind
           /\ {schema1.kind, schema2.kind} \cap {"Null", "Union"} = {})
          => merged = Union(<<schema1, schema2>>)
    /\ (pc = "called" /\ schema1.kind = "Record" /\ schema2.kind = "Record"
           /\ WellFormed(schema1) /\ WellFormed(schema2)) =>
          \A k \in FieldNamesOf(schema1) \cap FieldNamesOf(schema2) :
             (FieldNamed(schema1, k).schema = Long /\ FieldNamed(schema2, k).schema = String)
                => /\ ~IsFail(merged)
                   /\ FieldNamed(merged, k).schema = Union(<<Long, String>>)

\* C16: the fold over a stream of values holds the left fold of
\* merge_schemas over their schemas, from the schema of the first value;
\* over a stream with no value it returns Null and does not abort.
C16_StreamFold ==
    /\ (pc = "fold") =>
          /\ ~IsFail(base)
          /\ base \in FoldOutcomes(stream)
    /\ (pc \in {"fold", "aborted"} /\ stream = << >>) => base = Null

\* C17: in a step of the fold that merges a record into an accumulator that
\* is a record with a consistent lookup, the accumulator stays a record of
\* the same name, and every field keeps its name and its position.
C17_AccumulatorOnlyGrows ==
    [][(pc = "fold" /\ base.kind = "Record" /\ LookupConsistent(base)
            /\ schema2'.kind = "Record") =>
          /\ base'.kind = "Record"
          /\ base'.name = base.name
          /\ Len(base'.fields) >= Len(base.fields)
          /\ \A p \in 1..Len(base.fields) :
                /\ base'.fields[p].name = base.fields[p].name
                /\ base'.fields[p].position = p - 1
                /\ base.fields[p].position = p - 1]_vars

\* C17 witness: the accumulator started as a record of one field, a later
\* record of the stream brought a second field, and a third record was
\* merged after that.
C17_Witness ==
    /\ pc = "fold" /\ Len(stream) = 3
    /\ \A i \in 1..3 : stream[i].t = "Object"
    /\ Len(stream[1].entries) = 1
    /\ Len(stream[2].entries) = 1
    /\ stream[2].entries[1][1] # stream[1].entries[1][1]
    /\ base.kind = "Record" /\ LookupConsistent(base)
    /\ Len(base.fields) = 2
    /\ base.fields[1].name = stream[1].entries[1][1]
    /\ base.fields[2].name = stream[2].entries[1][1]

=============================================================================
